---- MODULE Spec2Model ----
(***************************************************************************)
(* A model of train_sort.py: the SortDataset generator (rejection sampling *)
(* with a hash-based train/test split), the generate routine, the training *)
(* loop and the seeding of a run.                                          *)
(***************************************************************************)
EXTENDS Integers, Sequences, FiniteSets

VARIABLES
    \* ---- SortDataset (lines 64-122) ----
    length,       \* self.length, the same for train_dataset and test_dataset
    hashKey,      \* the per-process key of Python's hash() of bytes
    pc,           \* position in __getitem__: "idle" (not running), "loop" (at
                  \* `while True`), "continue" (the draw was rejected),
                  \* "returned"
    self,         \* self.split of the dataset whose __getitem__ is running
    inp,          \* the local inp: the draw of the current pass of the loop
    coin,         \* the pass's value of torch.rand(1), in units of 1/RandLevels
    outcome,      \* what the loop body did with the draw
    redrawn,      \* some draw of the running call was rejected
    x, y,         \* the pair returned by the last completed call
    watch,        \* an arbitrary input sequence whose returns are recorded
    watchedBy,    \* the splits of the datasets that have returned watch
    \* ---- generate (lines 208-237) ----
    caller,       \* "eval_split" (line 290) or "direct" (any other call)
    block_size,   \* train_dataset.get_block_size(), line 161
    idx,          \* the running array: its shape (b, T) and one of its rows
    idx0,         \* the array the call was given
    max_new_tokens,
    do_sample,
    top_k,        \* <<>> for None, <<k>> for k
    step,         \* passes of `for _ in range(max_new_tokens)` completed
    genPc,        \* "loop" | "done" (returned idx) | "raised"
    idx_cond,     \* the context given to the model in the last pass
    seen,         \* idx as it was when idx_cond was taken from it
    idx_next,     \* the array appended in the last pass
    ctxLog,       \* per pass, <<T, length of the context>>
    \* ---- the training loop (lines 196-200, 239-262) ----
    max_iters,    \* config.trainer.max_iters
    loaderLen,    \* the number of batches one iterator of train_loader yields
    iterLeft,     \* the batches data_iter has yet to yield
    iter_num,
    trainPc,      \* "fetch" (line 242) | "update" (line 246) | "eval" (line 264)
    fetched,      \* batches fetched so far
    updates,      \* calls of update so far
    restarts,     \* times StopIteration was caught
    \* ---- two runs of the script with the same --seed (lines 148-157) ----
    seed,         \* args.seed of both runs
    runs          \* per run: its generators, hash key and examples drawn

dsVars == <<length, hashKey, pc, self, inp, coin, outcome, redrawn, x, y,
            watch, watchedBy>>

genVars == <<caller, block_size, idx, idx0, max_new_tokens, do_sample, top_k,
             step, genPc, idx_cond, seen, idx_next, ctxLog>>

trainVars == <<max_iters, loaderLen, iterLeft, iter_num, trainPc, fetched,
               updates, restarts>>

runVars == <<seed, runs>>

vars == <<dsVars, genVars, trainVars, runVars>>

----------------------------------------------------------------------------
\* Bounds of the model.
MaxLength == 3      \* length ranges over 1..MaxLength (the script uses 6)
MaxWatchLength == 2 \* the same, where the returns of a sequence are recorded
MaxKey == 3         \* hash keys range over 0..MaxKey
RandLevels == 4     \* torch.rand(1) ranges over {0, 1/RandLevels, ...}
MaxBatch == 2       \* b ranges over 1..MaxBatch
MaxT == 3           \* t of a direct call ranges over 1..MaxT
MaxNew == 3         \* max_new_tokens of a direct call ranges over 0..MaxNew
MaxIters == 6       \* max_iters ranges over -MaxNegIters..MaxIters
MaxNegIters == 1
MaxBatches == 4     \* loaderLen ranges over 1..MaxBatches
MaxSeed == 1        \* --seed ranges over 0..MaxSeed
MaxEntropy == 2     \* values of the OS entropy source: 0..MaxEntropy
MaxPasses == 3      \* passes of the sampling loop followed in each run

\* Program constants.
NumDigits == 3      \* num_digits=3, line 74
IgnoreIndex == -1   \* the "ignore" target, line 121

Splits == {"train", "test"}
Digits == 0 .. (NumDigits - 1)
Coins == 0 .. (RandLevels - 1)
HashKeys == 0 .. MaxKey

\* All tensors torch.randint(num_digits, size=(n,)) can return.
RandintSpace(n) == [1 .. n -> Digits]

\* Every sequence some dataset of the model can draw.
AllInputs == UNION {RandintSpace(n) : n \in 1 .. MaxLength}

----------------------------------------------------------------------------
\* get_block_size, lines 86-90.
get_block_size(len) == len * 2 - 1

\* inp.unique().nelement(), line 102.
UniqueNelement(s) == Cardinality({s[i] : i \in DOMAIN s})

\* torch.rand(1).item() < 0.5, line 101.
CoinBelowHalf(c) == 2 * c < RandLevels

\* Variant: the bound of the filter is taken inclusive.
TooManyUnique_AtLeast(s, c, len) ==
    CoinBelowHalf(c) /\ UniqueNelement(s) >= len \div 2

\* Variant: the filter is applied to every draw, whatever the coin.
TooManyUnique_EveryDraw(s, c, len) == UniqueNelement(s) > len \div 2

\* Lines 101-104: the draw is re-sampled.
TooManyUnique(s, c, len) == CoinBelowHalf(c) /\ UniqueNelement(s) > len \div 2

\* pickle.dumps(inp.tolist()), line 106: the opcode stream of a list of small
\* ints (PROTO 4, EMPTY_LIST, MARK, BININT1 d ..., APPENDS, STOP).
RECURSIVE PickleInts(_)
PickleInts(l) ==
    IF l = <<>> THEN <<>> ELSE <<75, Head(l)>> \o PickleInts(Tail(l))

PickleDumps(l) == <<128, 4, 93, 40>> \o PickleInts(l) \o <<101, 46>>

\* hash(bytes), line 106.  CPython hashes bytes with SipHash under a key drawn
\* once per process; the model uses a keyed multiplicative hash over the same
\* bytes, folded to a signed value as Py_hash_t is.
RECURSIVE HashFold(_, _, _)
HashFold(h, key, bs) ==
    IF bs = <<>> THEN h
    ELSE HashFold(((h * 31 + Head(bs)) * (key + 7) + key) % 509, key, Tail(bs))

BytesHash(key, bs) == HashFold(key + 1, key, bs) - 254

\* Lines 106-107: h = hash(pickle.dumps(inp.tolist()));
\* "test" if h % 4 == 0 else "train".
HashSplit(key, s) ==
    LET h == BytesHash(key, PickleDumps(s))
    IN IF h % 4 = 0 THEN "test" ELSE "train"

\* HashSplit, tabulated once.
SplitTable == [k \in HashKeys |-> [s \in AllInputs |-> HashSplit(k, s)]]

InpSplit(key, s) == SplitTable[key][s]

\* torch.sort(inp)[0], line 112: ascending order, by insertion.
RECURSIVE Insert(_, _)
Insert(v, s) ==
    IF s = <<>> THEN <<v>>
    ELSE IF v <= Head(s) THEN <<v>> \o s
    ELSE <<Head(s)>> \o Insert(v, Tail(s))

RECURSIVE TorchSort(_)
TorchSort(s) == IF s = <<>> THEN <<>> ELSE Insert(Head(s), TorchSort(Tail(s)))

\* torch.cat((inp, sol), dim=0), line 115.
Cat(s) == s \o TorchSort(s)

\* x = cat[:-1], line 118.
MakeX(s) == SubSeq(Cat(s), 1, Len(Cat(s)) - 1)

\* Variant: the mask covers one entry more, y[:length] = -1.
MakeY_MaskLength(s, len) ==
    LET t == SubSeq(Cat(s), 2, Len(Cat(s)))
    IN [i \in 1 .. Len(t) |-> IF i <= len THEN IgnoreIndex ELSE t[i]]

\* y = cat[1:]; y[:length-1] = -1, lines 119-121.
MakeY(s, len) ==
    LET t == SubSeq(Cat(s), 2, Len(Cat(s)))
    IN [i \in 1 .. Len(t) |-> IF i <= len - 1 THEN IgnoreIndex ELSE t[i]]

----------------------------------------------------------------------------
\* An array as the model keeps it: its shape and, of a 2-d array, one row (of
\* a 1-d array, the entry of that row).  Lines 216-235 treat all rows alike.
NoArray == [shape |-> <<>>, row |-> <<>>]

\* Variant: the first k columns are kept, idx[:, :block_size].
LastColumns_First(a, k) ==
    [shape |-> <<a.shape[1], k>>, row |-> SubSeq(a.row, 1, k)]

\* idx[:, -block_size:], line 217.
LastColumns(a, k) ==
    [shape |-> <<a.shape[1], k>>,
     row |-> SubSeq(a.row, Len(a.row) - k + 1, Len(a.row))]

\* Line 217: idx if T <= block_size else idx[:, -block_size:].
Crop(a, bs) == IF a.shape[2] <= bs THEN a ELSE LastColumns(a, bs)

\* jax.lax.top_k(logits, k=1)[1], line 233: shape (b, 1).
GreedyNext(b, tok) == [shape |-> <<b, 1>>, row |-> <<tok>>]

\* jax.random.categorical(key, logits), line 230: logits has shape
\* (b, vocab_size) and the sample is taken along the last axis: shape (b,).
SampledNext(b, tok) == [shape |-> <<b>>, row |-> tok]

\* jnp.concatenate((a, n), -1), line 235, is defined for arrays of the same
\* number of dimensions that agree on every other axis; else it raises.
CanConcatenate(a, n) ==
    /\ Len(a.shape) = Len(n.shape)
    /\ Len(a.shape) = 2 => a.shape[1] = n.shape[1]

Concatenate(a, n) ==
    [shape |-> <<a.shape[1], a.shape[2] + n.shape[2]>>, row |-> a.row \o n.row]

\* No call of generate is running.
GenIdle ==
    /\ caller = "none"
    /\ block_size = 0
    /\ idx = NoArray
    /\ idx0 = NoArray
    /\ max_new_tokens = 0
    /\ do_sample = FALSE
    /\ top_k = <<>>
    /\ step = 0
    /\ genPc = "idle"
    /\ idx_cond = NoArray
    /\ seen = NoArray
    /\ idx_next = NoArray
    /\ ctxLog = <<>>

\* The training loop is not running.
TrainIdle ==
    /\ max_iters = 0
    /\ loaderLen = 0
    /\ iterLeft = 0
    /\ iter_num = 0
    /\ trainPc = "idle"
    /\ fetched = 0
    /\ updates = 0
    /\ restarts = 0

\* No pair of runs is followed.
RunsIdle ==
    /\ seed = 0
    /\ runs = <<>>

\* No call of __getitem__ is running.
DataIdle ==
    /\ hashKey = 0
    /\ pc = "idle"
    /\ self = "train"
    /\ inp = <<>>
    /\ coin = 0
    /\ outcome = "none"
    /\ redrawn = FALSE
    /\ x = <<>>
    /\ y = <<>>
    /\ watch = <<>>
    /\ watchedBy = {}

\* SortDataset("train"), SortDataset("test") (lines 155-156) in a fresh process.
InitData ==
    /\ GenIdle
    /\ TrainIdle
    /\ RunsIdle
    /\ length \in 1 .. MaxLength
    /\ hashKey \in HashKeys
    /\ pc = "idle"
    /\ self = "train"
    /\ inp = <<>>
    /\ coin = 0
    /\ outcome = "none"
    /\ redrawn = FALSE
    /\ x = <<>>
    /\ y = <<>>
    /\ watch = <<>>
    /\ watchedBy = {}

\* The same, with one input sequence chosen to have its returns recorded.
InitSplit ==
    /\ GenIdle
    /\ TrainIdle
    /\ RunsIdle
    /\ length \in 1 .. MaxWatchLength
    /\ hashKey \in HashKeys
    /\ pc = "idle"
    /\ self = "train"
    /\ inp = <<>>
    /\ coin = 0
    /\ outcome = "none"
    /\ redrawn = FALSE
    /\ x = <<>>
    /\ y = <<>>
    /\ watch \in RandintSpace(length)
    /\ watchedBy = {}

\* A caller (line 157, or a DataLoader) enters dataset[idx] of split d.
GetItem(d) ==
    /\ pc \in {"idle", "returned"}
    /\ pc' = "loop"
    /\ self' = d
    /\ inp' = <<>>
    /\ coin' = 0
    /\ outcome' = "none"
    /\ redrawn' = FALSE
    /\ x' = <<>>
    /\ y' = <<>>
    /\ UNCHANGED <<length, hashKey, watch, watchedBy, genVars, trainVars, runVars>>

\* One pass of the loop body that ends at `continue`, lines 97-104.
DrawResample(s, c) ==
    /\ pc = "loop"
    /\ s \in RandintSpace(length)
    /\ c \in Coins
    /\ TooManyUnique(s, c, length)
    /\ inp' = s
    /\ coin' = c
    /\ outcome' = "resample"
    /\ redrawn' = TRUE
    /\ pc' = "continue"
    /\ UNCHANGED <<length, hashKey, self, x, y, watch, watchedBy, genVars, trainVars, runVars>>

\* One pass of the loop body that fails the test of line 108.
DrawOtherSplit(s, c) ==
    /\ pc = "loop"
    /\ s \in RandintSpace(length)
    /\ c \in Coins
    /\ ~TooManyUnique(s, c, length)
    /\ InpSplit(hashKey, s) # self
    /\ inp' = s
    /\ coin' = c
    /\ outcome' = "othersplit"
    /\ redrawn' = TRUE
    /\ pc' = "continue"
    /\ UNCHANGED <<length, hashKey, self, x, y, watch, watchedBy, genVars, trainVars, runVars>>

\* Back to the top of `while True` (line 95); the locals of the rejected pass
\* are dead, line 97 overwrites them before any read.
LoopAgain ==
    /\ pc = "continue"
    /\ pc' = "loop"
    /\ inp' = <<>>
    /\ coin' = 0
    /\ outcome' = "none"
    /\ UNCHANGED <<length, hashKey, self, redrawn, x, y, watch, watchedBy, genVars, trainVars, runVars>>

\* Variant: the pass breaks without the test of line 108.
DrawBreak_AnySplit(s, c) ==
    /\ pc = "loop"
    /\ s \in RandintSpace(length)
    /\ c \in Coins
    /\ ~TooManyUnique(s, c, length)
    /\ inp' = s
    /\ coin' = c
    /\ outcome' = "break"
    /\ x' = MakeX(s)
    /\ y' = MakeY(s, length)
    /\ pc' = "returned"
    /\ watchedBy' = IF s = watch THEN watchedBy \cup {self} ELSE watchedBy
    /\ UNCHANGED <<length, hashKey, self, redrawn, watch, genVars, trainVars,
                   runVars>>

\* The pass that reaches `break` (line 109), and the rest of __getitem__,
\* lines 111-122.
DrawBreak(s, c) ==
    /\ pc = "loop"
    /\ s \in RandintSpace(length)
    /\ c \in Coins
    /\ ~TooManyUnique(s, c, length)
    /\ InpSplit(hashKey, s) = self
    /\ inp' = s
    /\ coin' = c
    /\ outcome' = "break"
    /\ x' = MakeX(s)
    /\ y' = MakeY(s, length)
    /\ pc' = "returned"
    /\ watchedBy' = IF s = watch THEN watchedBy \cup {self} ELSE watchedBy
    /\ UNCHANGED <<length, hashKey, self, redrawn, watch, genVars, trainVars, runVars>>

CallGetItem == \E d \in Splits : GetItem(d)
Resample == \E s \in RandintSpace(length), c \in Coins : DrawResample(s, c)
OtherSplit == \E s \in RandintSpace(length), c \in Coins : DrawOtherSplit(s, c)
Break == \E s \in RandintSpace(length), c \in Coins : DrawBreak(s, c)

NextData == CallGetItem \/ Resample \/ OtherSplit \/ LoopAgain \/ Break

SpecData == InitData /\ [][NextData]_vars

SpecSplit == InitSplit /\ [][NextData]_vars

\* Fair draws: torch.randint and torch.rand give every pair (s, c) a positive
\* chance on every pass, so while some pair reaches `break` one is drawn in the
\* end; and a rejected pass goes back to the top of the loop.
FairDraws == WF_vars(LoopAgain) /\ SF_vars(Break)

SpecDataFair == InitData /\ [][NextData]_vars /\ FairDraws

----------------------------------------------------------------------------
\* A call of generate with the defaults temperature=1.0 and the given
\* do_sample and top_k, on an array of shape (b, t).
InitGenCall(who, b, row, new, sample, topk) ==
    /\ caller = who
    /\ block_size = get_block_size(length)
    /\ idx = [shape |-> <<b, Len(row)>>, row |-> row]
    /\ idx0 = idx
    /\ max_new_tokens = new
    /\ do_sample = sample
    /\ top_k = topk
    /\ step = 0
    /\ genPc = "loop"
    /\ idx_cond = NoArray
    /\ seen = NoArray
    /\ idx_next = NoArray
    /\ ctxLog = <<>>

\* eval_split, lines 279-290: inp = x[:, :n] of a batch of the loader, and
\* generate(train_state, subkey, inp, n, do_sample=False).
InitEvalSplit ==
    \E b \in 1 .. MaxBatch, row \in RandintSpace(length) :
        InitGenCall("eval_split", b, row, length, FALSE, <<>>)

\* Any other call of generate.
InitDirect ==
    \E b \in 1 .. MaxBatch, t \in 1 .. MaxT, new \in 0 .. MaxNew,
       sample \in BOOLEAN, topk \in {<<>>, <<1>>} :
        \E row \in RandintSpace(t) :
            InitGenCall("direct", b, row, new, sample, topk)

InitGen ==
    /\ length \in 1 .. MaxLength
    /\ DataIdle
    /\ TrainIdle
    /\ RunsIdle
    /\ InitEvalSplit \/ InitDirect

\* One pass of the loop, lines 215-235, in which the model's logits make tok
\* the next token of the row.
GenPass(tok) ==
    /\ genPc = "loop"
    /\ step < max_new_tokens
    /\ tok \in Digits
    /\ LET T == idx.shape[2]
           cond == Crop(idx, block_size)
           next == IF do_sample THEN SampledNext(idx.shape[1], tok)
                   ELSE GreedyNext(idx.shape[1], tok)
       IN /\ idx_cond' = cond
          /\ seen' = idx
          /\ ctxLog' = Append(ctxLog, <<T, cond.shape[2]>>)
          /\ IF top_k # <<>>
             THEN \* line 224: jax.numpy has no topk, AttributeError
                  /\ genPc' = "raised"
                  /\ UNCHANGED <<idx, idx_next, step>>
             ELSE /\ idx_next' = next
                  /\ IF CanConcatenate(idx, next)
                     THEN /\ idx' = Concatenate(idx, next)
                          /\ step' = step + 1
                          /\ genPc' = "loop"
                     ELSE \* line 235 raises
                          /\ genPc' = "raised"
                          /\ UNCHANGED <<idx, step>>
    /\ UNCHANGED <<caller, block_size, idx0, max_new_tokens, do_sample, top_k>>
    /\ UNCHANGED <<dsVars, trainVars, runVars>>

\* The loop is exhausted: return idx, line 237.
GenReturn ==
    /\ genPc = "loop"
    /\ step = max_new_tokens
    /\ genPc' = "done"
    /\ UNCHANGED <<caller, block_size, idx, idx0, max_new_tokens, do_sample,
                   top_k, step, idx_cond, seen, idx_next, ctxLog>>
    /\ UNCHANGED <<dsVars, trainVars, runVars>>

Pass == \E tok \in Digits : GenPass(tok)

NextGen == Pass \/ GenReturn

SpecGen == InitGen /\ [][NextGen]_vars

----------------------------------------------------------------------------
\* The training loop.  iter_num = 0 and data_iter = iter(train_loader), lines
\* 197-200.  One iterator of the loader yields num_samples / batch_size
\* batches (line 189: int(1e10) samples), at least one.
InitTrain ==
    /\ length = 1
    /\ DataIdle
    /\ GenIdle
    /\ RunsIdle
    /\ max_iters \in (0 - MaxNegIters) .. MaxIters
    /\ loaderLen \in 1 .. MaxBatches
    /\ iterLeft = loaderLen
    /\ iter_num = 0
    /\ trainPc = "fetch"
    /\ fetched = 0
    /\ updates = 0
    /\ restarts = 0

\* batch = next(data_iter) yields a batch, line 242.
FetchBatch ==
    /\ trainPc = "fetch"
    /\ iterLeft > 0
    /\ iterLeft' = iterLeft - 1
    /\ fetched' = fetched + 1
    /\ trainPc' = "update"
    /\ UNCHANGED <<max_iters, loaderLen, iter_num, updates, restarts>>
    /\ UNCHANGED <<dsVars, genVars, runVars>>

\* next(data_iter) raises StopIteration: lines 243-245 make a new iterator
\* and take its first batch.
FetchAfterStop ==
    /\ trainPc = "fetch"
    /\ iterLeft = 0
    /\ iterLeft' = loaderLen - 1
    /\ fetched' = fetched + 1
    /\ restarts' = restarts + 1
    /\ trainPc' = "update"
    /\ UNCHANGED <<max_iters, loaderLen, iter_num, updates>>
    /\ UNCHANGED <<dsVars, genVars, runVars>>

\* Variant: the termination test comes before iter_num += 1.
UpdateStep_TestFirst ==
    /\ trainPc = "update"
    /\ updates' = updates + 1
    /\ iter_num' = iter_num + 1
    /\ trainPc' = IF iter_num >= max_iters THEN "eval" ELSE "fetch"
    /\ UNCHANGED <<max_iters, loaderLen, iterLeft, fetched, restarts>>
    /\ UNCHANGED <<dsVars, genVars, runVars>>

\* Lines 246-262: the update, iter_num += 1 and the termination test.
UpdateStep ==
    /\ trainPc = "update"
    /\ updates' = updates + 1
    /\ iter_num' = iter_num + 1
    /\ trainPc' = IF iter_num' >= max_iters THEN "eval" ELSE "fetch"
    /\ UNCHANGED <<max_iters, loaderLen, iterLeft, fetched, restarts>>
    /\ UNCHANGED <<dsVars, genVars, runVars>>

NextTrain == FetchBatch \/ FetchAfterStop \/ UpdateStep

SpecTrain == InitTrain /\ [][NextTrain]_vars

----------------------------------------------------------------------------
\* Two runs of the script, given the same --seed and the same configuration.
Runs == {1, 2}
Entropy == 0 .. MaxEntropy

\* The k-th word of torch's default generator after it was seeded with ts (a
\* stand-in for mt19937: a fixed function of the seed and the position).
TorchWord(ts, k) == ((ts + 2) * (k * k + 3 * k + 5) + ts * ts) % 97

\* torch.randint(self.num_digits, size=(self.length,)), line 97, in the given
\* pass of the sampling loop.
TorchRandint(ts, pass, n) ==
    [j \in 1 .. n |-> TorchWord(ts, pass * (n + 1) + j) % NumDigits]

\* torch.rand(1).item(), line 101, in the same pass.
TorchRand(ts, pass, n) == TorchWord(ts, pass * (n + 1) + n + 1) % RandLevels

InitRuns ==
    /\ length \in 1 .. MaxWatchLength
    /\ DataIdle
    /\ GenIdle
    /\ TrainIdle
    /\ seed \in 0 .. MaxSeed
    /\ runs = [r \in Runs |->
                  [rpc |-> "boot", hashKey |-> 0, torchSeed |-> 0,
                   pySeed |-> 0, npSeed |-> 0, jaxKey |-> 0, passes |-> 0,
                   examples |-> <<>>]]

\* The interpreter starts and lines 1-19 import the libraries: the hash key
\* of str and bytes, and the seeds of the default generators of random, numpy
\* and torch, come from the operating system's entropy.
RunBoot(r) ==
    /\ runs[r].rpc = "boot"
    /\ \E k \in HashKeys, e \in Entropy, ts \in Entropy :
           runs' = [runs EXCEPT ![r].rpc = "main", ![r].hashKey = k,
                                ![r].pySeed = e, ![r].npSeed = e,
                                ![r].torchSeed = ts]
    /\ UNCHANGED <<seed, dsVars, genVars, trainVars>>

\* Lines 148-156: random.seed, np.random.seed and jax.random.PRNGKey take
\* args.seed; nothing seeds torch.  Then the datasets are made.
RunSeeding(r) ==
    /\ runs[r].rpc = "main"
    /\ runs' = [runs EXCEPT ![r].rpc = "seeded", ![r].pySeed = seed,
                            ![r].npSeed = seed, ![r].jaxKey = seed]
    /\ UNCHANGED <<seed, dsVars, genVars, trainVars>>

\* A pass of the loop of train_dataset.__getitem__ (lines 95-109) that
\* rejects its draw.
RunPassReject(r) ==
    LET s == TorchRandint(runs[r].torchSeed, runs[r].passes, length)
        c == TorchRand(runs[r].torchSeed, runs[r].passes, length)
    IN /\ runs[r].rpc = "seeded"
       /\ runs[r].passes < MaxPasses
       /\ TooManyUnique(s, c, length) \/ InpSplit(runs[r].hashKey, s) # "train"
       /\ runs' = [runs EXCEPT ![r].passes = @ + 1]
       /\ UNCHANGED <<seed, dsVars, genVars, trainVars>>

\* A pass that breaks: the call returns the example of its draw.
RunPassReturn(r) ==
    LET s == TorchRandint(runs[r].torchSeed, runs[r].passes, length)
        c == TorchRand(runs[r].torchSeed, runs[r].passes, length)
    IN /\ runs[r].rpc = "seeded"
       /\ runs[r].passes < MaxPasses
       /\ ~TooManyUnique(s, c, length)
       /\ InpSplit(runs[r].hashKey, s) = "train"
       /\ runs' = [runs EXCEPT ![r].passes = @ + 1,
                               ![r].examples = Append(@, s)]
       /\ UNCHANGED <<seed, dsVars, genVars, trainVars>>

Boot == \E r \in Runs : RunBoot(r)
Seeding == \E r \in Runs : RunSeeding(r)
PassReject == \E r \in Runs : RunPassReject(r)
PassReturn == \E r \in Runs : RunPassReturn(r)

NextRuns == Boot \/ Seeding \/ PassReject \/ PassReturn

SpecRuns == InitRuns /\ [][NextRuns]_vars

----------------------------------------------------------------------------
\* Properties of SortDataset.

Occurrences(s, d) == Cardinality({i \in DOMAIN s : s[i] = d})

NonDecreasing(s) == \A i \in 1 .. (Len(s) - 1) : s[i] <= s[i + 1]

Permutation(s, t) ==
    /\ Len(s) = Len(t)
    /\ \A d \in Digits : Occurrences(s, d) = Occurrences(t, d)

\* C1: the pair (x, y) returned for the input inp is cat = inp ++ sort(inp)
\* without its last, resp. first, element; both have length 2*length-1 =
\* get_block_size(); the first length-1 entries of y are -1 and its last
\* length entries are inp in non-decreasing order; x holds no -1; and
\* x[i+1] = y[i] at every unmasked position i but the last.
ThmC1_GetItemPair ==
    pc = "returned" =>
        LET n == length
            sol == [i \in 1 .. n |-> y[n - 1 + i]]
            cat == inp \o sol
        IN /\ Len(inp) = n
           /\ \A i \in 1 .. n : inp[i] \in Digits
           /\ Len(x) = 2 * n - 1
           /\ Len(y) = 2 * n - 1
           /\ get_block_size(n) = 2 * n - 1
           /\ \A i \in 1 .. (n - 1) : y[i] = -1
           /\ NonDecreasing(sol)
           /\ Permutation(sol, inp)
           /\ x = [i \in 1 .. (2 * n - 1) |-> cat[i]]
           /\ \A i \in n .. (2 * n - 1) : y[i] = cat[i + 1]
           /\ \A i \in 1 .. Len(x) : x[i] # -1
           /\ \A i \in n .. (2 * n - 2) : x[i + 1] = y[i]

\* A call has returned the pair of an input that was not already sorted.
WitC1_UnsortedInput ==
    /\ pc = "returned"
    /\ length >= 2
    /\ ~NonDecreasing(inp)
    /\ y[1] = -1

\* C2: the test dataset returns only inputs with h % 4 = 0 and the train
\* dataset only inputs with h % 4 # 0, and no input sequence is ever returned
\* by both datasets.
ThmC2_SplitDisjoint ==
    /\ pc = "returned" =>
           (self = "test" <=> BytesHash(hashKey, PickleDumps(inp)) % 4 = 0)
    /\ watchedBy # {"train", "test"}

\* The recorded sequence was returned by the train dataset, and the test
\* dataset has returned an input since.
WitC2_BothReturned ==
    /\ pc = "returned"
    /\ self = "test"
    /\ watchedBy = {"train"}

\* C3: a draw is discarded by the repetition filter exactly when its coin is
\* below 0.5 and it has more than length // 2 distinct digits; a draw that is
\* rejected failed the filter or has the other split; and the input returned
\* is the last draw, not discarded by the filter and of the dataset's split.
ThmC3_RejectionSampling ==
    LET below == 2 * coin < RandLevels
        distinct == Cardinality({inp[i] : i \in DOMAIN inp})
        h == BytesHash(hashKey, PickleDumps(inp))
        split == IF h % 4 = 0 THEN "test" ELSE "train"
    IN /\ pc \in {"continue", "returned"} =>
              (outcome = "resample" <=> (below /\ distinct > length \div 2))
       /\ pc = "continue" =>
              /\ outcome \in {"resample", "othersplit"}
              /\ outcome = "othersplit" => split # self
       /\ pc = "returned" =>
              /\ outcome = "break"
              /\ ~(below /\ distinct > length \div 2)
              /\ split = self
              /\ SubSeq(x, 1, length) = inp

\* A call returned after an earlier draw of it was rejected, and the returned
\* draw went through the filter and passed it.
WitC3_ReturnedAfterRedraw ==
    /\ pc = "returned"
    /\ redrawn
    /\ 2 * coin < RandLevels
    /\ length >= 2

\* C8: when some sequence has the dataset's split and the draws are fair,
\* every __getitem__ call returns.
ThmC8_GetItemReturns ==
    [](( /\ pc = "loop"
         /\ \E s \in RandintSpace(length) : InpSplit(hashKey, s) = self )
       => <>(pc = "returned"))

\* A call returned after a rejected draw.
WitC8_Returned == pc = "returned" /\ redrawn /\ outcome = "break"

----------------------------------------------------------------------------
\* Properties of generate.

\* C4: in greedy and in sampling mode every pass appends one token per row:
\* no pass raises, after k passes the array has shape (b, t + k) and its first
\* t columns are the original idx, the result has shape
\* (b, t + max_new_tokens), and the token appended by a pass is in the
\* context of the next pass.
CexC4_GenerateAppends ==
    (caller # "none" /\ top_k = <<>>) =>
        LET b == idx0.shape[1]
            t == idx0.shape[2]
        IN /\ genPc # "raised"
           /\ idx.shape = <<b, t + step>>
           /\ Len(idx.row) = t + step
           /\ SubSeq(idx.row, 1, t) = idx0.row
           /\ genPc = "done" => idx.shape = <<b, t + max_new_tokens>>
           /\ step >= 2 =>
                  idx_cond.row[Len(idx_cond.row)] = idx.row[Len(idx.row) - 1]

\* C6: in every pass the context has length min(T, block_size), T = t + k - 1
\* being the length of the running sequence in pass k: the whole sequence
\* when T <= block_size, else its last block_size tokens; in eval_split the
\* lengths are n, n+1, ..., 2n-1 = block_size, none cropped.
ThmC6_ContextLength ==
    LET b == idx0.shape[1]
        t == idx0.shape[2]
        n == length
    IN /\ \A k \in 1 .. Len(ctxLog) :
              /\ ctxLog[k][1] = t + k - 1
              /\ ctxLog[k][2] =
                     IF ctxLog[k][1] <= block_size THEN ctxLog[k][1]
                     ELSE block_size
       /\ Len(ctxLog) >= 1 =>
              LET T == ctxLog[Len(ctxLog)][1]
                  L == ctxLog[Len(ctxLog)][2]
              IN /\ seen.shape = <<b, T>>
                 /\ idx_cond.shape = <<b, L>>
                 /\ Len(idx_cond.row) = L
                 /\ \A i \in 1 .. L : idx_cond.row[i] = seen.row[T - L + i]
       /\ caller = "eval_split" =>
              /\ block_size = 2 * n - 1
              /\ \A k \in 1 .. Len(ctxLog) :
                     /\ ctxLog[k] = <<n + k - 1, n + k - 1>>
                     /\ ctxLog[k][2] <= block_size
              /\ genPc = "done" =>
                     /\ Len(ctxLog) = n
                     /\ ctxLog[n][2] = block_size

\* A direct call has finished whose last context was cropped to the last
\* block_size of more than block_size tokens.
WitC6_Cropped ==
    /\ genPc = "done"
    /\ caller = "direct"
    /\ Len(ctxLog) >= 2
    /\ ctxLog[Len(ctxLog)][1] > block_size
    /\ block_size >= 3

\* A call from eval_split has finished, its last context block_size long.
WitC6_EvalSplitDone ==
    /\ genPc = "done"
    /\ caller = "eval_split"
    /\ length >= 2
    /\ ctxLog[Len(ctxLog)] = <<block_size, block_size>>

----------------------------------------------------------------------------
\* Properties of the training loop.

\* C7: iter_num starts at 0 and counts the updates, each of a batch fetched
\* for it, also after StopIteration; the loop is left only after an update
\* that brings iter_num to max_iters or beyond, after exactly
\* max(1, max_iters) updates.
ThmC7_TrainingSteps ==
    LET steps == IF max_iters > 1 THEN max_iters ELSE 1
    IN trainPc # "idle" =>
           /\ iter_num = updates
           /\ fetched = updates + (IF trainPc = "update" THEN 1 ELSE 0)
           /\ trainPc = "eval" => (updates = steps /\ iter_num >= max_iters)
           /\ trainPc # "eval" => updates < steps
           /\ trainPc = "fetch" /\ updates > 0 => iter_num < max_iters

\* Training ended after the iterator was exhausted and made anew on the way.
WitC7_EndedAfterRestart ==
    /\ trainPc = "eval"
    /\ restarts >= 1
    /\ max_iters >= 3
    /\ updates = max_iters

\* Training ended after one update although max_iters is not positive.
WitC7_OneStep ==
    /\ trainPc = "eval"
    /\ max_iters <= 0
    /\ updates = 1

----------------------------------------------------------------------------
\* Properties of two runs.

\* C5: two runs with the same --seed and the same configuration draw the
\* same sequence of training examples and put every input sequence in the
\* same split.
CexC5_SeedDeterminesRun ==
    (\A r \in Runs : runs[r].rpc = "seeded") =>
        LET e1 == runs[1].examples
            e2 == runs[2].examples
        IN /\ runs[1].pySeed = runs[2].pySeed
           /\ runs[1].npSeed = runs[2].npSeed
           /\ runs[1].jaxKey = runs[2].jaxKey
           /\ \A i \in 1 .. Len(e1) : i <= Len(e2) => e1[i] = e2[i]
           /\ \A s \in RandintSpace(length) :
                  InpSplit(runs[1].hashKey, s) = InpSplit(runs[2].hashKey, s)

\* The same, for the examples alone.
CexC5_SameExamples ==
    (\A r \in Runs : runs[r].rpc = "seeded") =>
        \A i \in 1 .. Len(runs[1].examples) :
            i <= Len(runs[2].examples) =>
                runs[1].examples[i] = runs[2].examples[i]

====
